---- MODULE Spec2Model ----
(***************************************************************************)
(* Model of firefly-iii-ai-categorize: the SQLite job queue                *)
(* (src/services/queue.ts), the merchant cache (src/services/cache.ts,     *)
(* the second half of the queue.ts listing), the decision engine and the   *)
(* polling worker (src/worker.ts).                                         *)
(*                                                                         *)
(* The specifications share the variables:                                 *)
(*   Spec         the running program: webhook enqueues, the worker's poll *)
(*                loop split at its awaits, crash + restart (QueueService  *)
(*                init);                                                   *)
(*   SpecQueue    QueueService driven by arbitrary calls of its methods;   *)
(*   SpecCache    CacheService driven by arbitrary calls of its methods;   *)
(*   SpecClaim    several processes calling dequeue on one database file,  *)
(*                each SQL statement being one atomic step;                *)
(*   SpecUpdate   the running program on webhooks with several transaction *)
(*                ids and tag lists;                                       *)
(*   SpecStorage  the running program on a database whose statements may   *)
(*                throw;                                                   *)
(*   SpecHistory  analyzeHistory applied to one cache entry and history;   *)
(*   SpecResolve  the classifier's answer resolved to a decision;          *)
(*   SpecPinned   the running program against a Firefly whose category     *)
(*                list and merchant history stay the same for the run;     *)
(*   SpecLive     the running program without crashes, the worker's steps  *)
(*                being taken fairly.                                      *)
(***************************************************************************)
EXTENDS Integers, Sequences, FiniteSets, TLC

\* ------------------------------------------------------------------ bounds
MaxJobs == 2
MaxClock == 1
MaxAttempts == 4

\* ------------------------------------------------------- program constants
POLL_INTERVAL_MS == 1000
DefaultMaxRetries == 3

\* ------------------------------------------------------------ value spaces
NoJob == 0
NoError == "null"
\* Text (category names, classifier output) is a sequence of characters.
\* null and "" are both written <<>> for names and "" for ids: every test the
\* code makes on them is a truthiness test, which does not tell them apart.
NullText == <<>>
NullId == ""
NoEntry == [merchant_name |-> "null", category_name |-> NullText, category_id |-> NullId]
Merchants == {"shop"}
CacheMerchants == {"shop", "cafe"}
Statuses == {"pending", "processing", "completed", "failed"}
ErrCategories == "Failed to fetch categories"
ErrSearch == "Failed to search transactions"
ErrUpdate == "Failed to update transaction"
ErrLLM == "LLM request failed"
ErrStorage == "disk I/O error"

\* ---------------------------------------------------------------- state
VARIABLES
    jobs,        \* table jobs: id -> row
    seq,         \* sqlite_sequence of jobs (AUTOINCREMENT: largest rowid ever used)
    now,         \* CURRENT_TIMESTAMP, in whole seconds
    cache,       \* table merchant_categories: a set of rows
    pc,          \* the worker's position in poll / processJob / decideCategory
    job,         \* poll's local `job` (id of the claimed job, NoJob if none)
    categories,  \* decideCategory's local `categories`
    cached,      \* decideCategory's local `cached`
    decision,    \* the CategoryDecision being returned / last returned
    delay,       \* delay of the last setTimeout(poll, ...), -1 before the first
    trace,       \* what the current decision has done so far (observer)
    last,        \* the last store operation performed (observer)
    callers,     \* SpecClaim: per process, its position in dequeue and its row
    input,       \* SpecHistory, SpecResolve: the arguments of the function applied
    output       \* SpecHistory, SpecResolve: its result

vars == <<jobs, seq, now, cache, pc, job, categories, cached, decision, delay,
          trace, last, callers, input, output>>

fnVars == <<input, output>>

\* ============================================================ QueueService
\* JSON.stringify / JSON.parse of a string[]: the text is a sequence of
\* tokens, a tag's characters being one token.
RECURSIVE stringifyItems(_)
stringifyItems(tags) ==
    IF tags = <<>> THEN <<>>
    ELSE IF Len(tags) = 1 THEN <<"\"", tags[1], "\"">>
    ELSE <<"\"", tags[1], "\"", ",">> \o stringifyItems(Tail(tags))

JSON_stringify(tags) == <<"[">> \o stringifyItems(tags) \o <<"]">>

RECURSIVE parseItems(_)
parseItems(text) ==
    IF Len(text) < 3 THEN <<>>
    ELSE <<text[2]>> \o parseItems(SubSeq(text, 5, Len(text)))

JSON_parse(text) == parseItems(SubSeq(text, 2, Len(text) - 1))

\* What handleWebhook passes to enqueue (description and amount only reach
\* the classifier's prompt and are left out).
Transaction(transactionId, merchantName, tags) ==
    [transactionId |-> transactionId, merchantName |-> merchantName, tags |-> tags]

\* A row of table jobs.  description, amount and updated_at are carried by
\* no statement's WHERE or SET expression other than as payload, and are
\* left out.
NewRow(tx, t) ==
    [status |-> "pending", attempts |-> 0, error |-> NoError,
     created_at |-> t, transactionId |-> tx.transactionId,
     merchantName |-> tx.merchantName, tags |-> JSON_stringify(tx.tags)]

\* init(): UPDATE jobs SET status = 'pending' WHERE status = 'processing'
\* Fault variants: a reset that also clears attempts; a reset that also
\* revives failed jobs.
init_mut_attempts(J) ==
    [i \in DOMAIN J |->
        IF J[i].status = "processing"
        THEN [J[i] EXCEPT !.status = "pending", !.attempts = 0]
        ELSE J[i]]

init_mut_failed(J) ==
    [i \in DOMAIN J |->
        IF J[i].status \in {"processing", "failed"}
        THEN [J[i] EXCEPT !.status = "pending"]
        ELSE J[i]]

init(J) ==
    [i \in DOMAIN J |->
        IF J[i].status = "processing"
        THEN [J[i] EXCEPT !.status = "pending"]
        ELSE J[i]]

\* enqueue(): INSERT INTO jobs (...) VALUES (...); status and attempts take
\* the column defaults, the id is AUTOINCREMENT (above every id ever used).
\* Fault variant: the new row takes the last rowid instead of the next one.
enqueue_mut_rowid(J, s, tx, t) ==
    LET id == IF s = 0 THEN 1 ELSE s IN
    [i \in DOMAIN J \cup {id} |-> IF i = id THEN NewRow(tx, t) ELSE J[i]]

enqueue(J, s, tx, t) ==
    LET id == s + 1 IN
    [i \in DOMAIN J \cup {id} |-> IF i = id THEN NewRow(tx, t) ELSE J[i]]

Pending(J) == {i \in DOMAIN J : J[i].status = "pending"}

\* dequeue(), first statement:
\*   SELECT * FROM jobs WHERE status = 'pending' ORDER BY created_at ASC LIMIT 1
\* created_at has one-second resolution.  Rows with equal created_at leave
\* the sorter in scan order (the query runs over idx_job_status into an
\* ephemeral b-tree keyed by (created_at, insertion sequence)), which is
\* ascending rowid.
\* Fault variant: ORDER BY created_at DESC.
select_mut_desc(J) ==
    IF Pending(J) = {} THEN NoJob
    ELSE CHOOSE i \in Pending(J) : \A k \in Pending(J) :
            \/ J[i].created_at > J[k].created_at
            \/ (J[i].created_at = J[k].created_at /\ i <= k)

select_pending(J) ==
    IF Pending(J) = {} THEN NoJob
    ELSE CHOOSE i \in Pending(J) : \A k \in Pending(J) :
            \/ J[i].created_at < J[k].created_at
            \/ (J[i].created_at = J[k].created_at /\ i <= k)

\* dequeue(), second statement:
\*   UPDATE jobs SET status = 'processing', attempts = attempts + 1 WHERE id = ?
mark_processing(J, id) ==
    IF id \in DOMAIN J
    THEN [J EXCEPT ![id].status = "processing", ![id].attempts = @ + 1]
    ELSE J

\* complete(): UPDATE jobs SET status = 'completed' WHERE id = ?
\* Fault variant: the UPDATE matches no row.
complete_mut_norow(J, jobId) == J

complete(J, jobId) ==
    IF jobId \in DOMAIN J
    THEN [J EXCEPT ![jobId].status = "completed"]
    ELSE J

\* fail(): SELECT attempts; then one of two UPDATEs ... WHERE id = ?
\* Fault variant: neither UPDATE matches a row.
fail_mut_norow(J, jobId, error, maxRetries) == J

\* Fault variant: attempts <= maxRetries.
fail_mut_le(J, jobId, error, maxRetries) ==
    LET attempts == IF jobId \in DOMAIN J THEN J[jobId].attempts ELSE 0 IN
    IF jobId \notin DOMAIN J THEN J
    ELSE IF attempts <= maxRetries
         THEN [J EXCEPT ![jobId].status = "pending", ![jobId].error = error]
         ELSE [J EXCEPT ![jobId].status = "failed", ![jobId].error = error]

fail(J, jobId, error, maxRetries) ==
    LET attempts == IF jobId \in DOMAIN J THEN J[jobId].attempts ELSE 0 IN
    IF jobId \notin DOMAIN J THEN J
    ELSE IF attempts < maxRetries
         THEN [J EXCEPT ![jobId].status = "pending", ![jobId].error = error]
         ELSE [J EXCEPT ![jobId].status = "failed", ![jobId].error = error]

\* getPendingCount(): SELECT COUNT(*) FROM jobs WHERE status = 'pending'
getPendingCount(J) == Cardinality(Pending(J))

\* ============================================================ CacheService
\* A row of merchant_categories is [merchant_name, category_name, category_id];
\* created_at / updated_at are read by no caller and are left out.

\* get(): SELECT ... WHERE merchant_name = ?   (null when there is no row)
get(C, merchantName) ==
    IF \E r \in C : r.merchant_name = merchantName
    THEN CHOOSE r \in C : r.merchant_name = merchantName
    ELSE NoEntry

\* set(): INSERT ... ON CONFLICT(merchant_name) DO UPDATE SET category_name,
\* category_id
\* Fault variant: ON CONFLICT DO NOTHING.
set_mut_ignore(C, merchantName, categoryName, categoryId) ==
    IF \E r \in C : r.merchant_name = merchantName
    THEN C
    ELSE C \cup {[merchant_name |-> merchantName, category_name |-> categoryName,
                  category_id |-> categoryId]}

set(C, merchantName, categoryName, categoryId) ==
    IF \E r \in C : r.merchant_name = merchantName
    THEN {IF r.merchant_name = merchantName
          THEN [r EXCEPT !.category_name = categoryName, !.category_id = categoryId]
          ELSE r : r \in C}
    ELSE C \cup {[merchant_name |-> merchantName, category_name |-> categoryName,
                  category_id |-> categoryId]}

\* updateFromOverride(): UPDATE ... SET category_name, category_id
\* WHERE merchant_name = ?
\* Fault variants: the UPDATE matches no row; only category_id is SET.
updateFromOverride_mut_norow(C, merchantName, categoryName, categoryId) == C

updateFromOverride_mut_idonly(C, merchantName, categoryName, categoryId) ==
    {IF r.merchant_name = merchantName
     THEN [r EXCEPT !.category_id = categoryId]
     ELSE r : r \in C}

updateFromOverride(C, merchantName, categoryName, categoryId) ==
    {IF r.merchant_name = merchantName
     THEN [r EXCEPT !.category_name = categoryName, !.category_id = categoryId]
     ELSE r : r \in C}

\* invalidate(): DELETE FROM merchant_categories WHERE merchant_name = ?
\* Fault variant: the DELETE matches no row.
invalidate_mut_noop(C, merchantName) == C

invalidate(C, merchantName) == {r \in C : r.merchant_name # merchantName}

\* ================================================================== text
\* String.prototype.toLowerCase, on the characters the model uses.
lowerChar(c) ==
    CASE c = "F" -> "f"
      [] c = "U" -> "u"
      [] c = "O" -> "o"
      [] OTHER -> c

toLowerCase(s) == [i \in 1..Len(s) |-> lowerChar(s[i])]

\* String.prototype.includes: t occurs in s as a contiguous run ("" always does)
includes(s, t) ==
    \E i \in 0..(Len(s) - Len(t)) : SubSeq(s, i + 1, i + Len(t)) = t

\* String.prototype.trim, over the one whitespace character of the model
RECURSIVE trimStart(_)
trimStart(s) ==
    IF s # <<>> /\ Head(s) = " " THEN trimStart(Tail(s)) ELSE s

RECURSIVE trimEnd(_)
trimEnd(s) ==
    IF s # <<>> /\ s[Len(s)] = " " THEN trimEnd(SubSeq(s, 1, Len(s) - 1)) ELSE s

trim(s) == trimEnd(trimStart(s))

\* .replace(/^["']|["']$/g, ""): one quote off the front, one off the end
Quotes == {"'", "\""}
stripQuotes(s) ==
    LET a == IF s # <<>> /\ Head(s) \in Quotes THEN Tail(s) ELSE s
    IN  IF a # <<>> /\ a[Len(a)] \in Quotes THEN SubSeq(a, 1, Len(a) - 1) ELSE a

\* Array.prototype.find: the first element whose test holds, `undefined`
\* (written none) if there is none; test[i] is the callback's result on xs[i]
find(xs, test, none) ==
    IF \E i \in 1..Len(xs) : test[i]
    THEN xs[CHOOSE i \in 1..Len(xs) : test[i] /\ \A k \in 1..(i - 1) : ~test[k]]
    ELSE none

\* ============================================================== LLMService
\* parseResponse(content, validCategories).category
\* Fault variant: the partial match is tried before the exact match.
parseResponse_mut_partial(content, validCategories) ==
    LET cleaned == stripQuotes(trim(content))
        n == Len(validCategories)
        exactMatch ==
            find(validCategories,
                 [i \in 1..n |-> toLowerCase(validCategories[i]) = toLowerCase(cleaned)],
                 NullText)
        partialMatch ==
            find(validCategories,
                 [i \in 1..n |->
                    \/ includes(toLowerCase(validCategories[i]), toLowerCase(cleaned))
                    \/ includes(toLowerCase(cleaned), toLowerCase(validCategories[i]))],
                 NullText)
    IN  IF partialMatch # NullText THEN partialMatch
        ELSE IF exactMatch # NullText THEN exactMatch
        ELSE NullText

parseResponse(content, validCategories) ==
    LET cleaned == stripQuotes(trim(content))
        n == Len(validCategories)
        exactMatch ==
            find(validCategories,
                 [i \in 1..n |-> toLowerCase(validCategories[i]) = toLowerCase(cleaned)],
                 NullText)
        partialMatch ==
            find(validCategories,
                 [i \in 1..n |->
                    \/ includes(toLowerCase(validCategories[i]), toLowerCase(cleaned))
                    \/ includes(toLowerCase(cleaned), toLowerCase(validCategories[i]))],
                 NullText)
    IN  IF exactMatch # NullText THEN exactMatch
        ELSE IF partialMatch # NullText THEN partialMatch
        ELSE NullText

\* ========================================================== FireflyService
\* config.firefly.tag (FIREFLY_TAG, default "AI categorized")
firefly_tag == "AI categorized"

\* updateTransactionCategory(transactionId, categoryId, existingTags): the
\* request it sends (path id, body.transactions[0])
\* Fault variant: the tag is pushed without looking for it.
updateTransactionCategory_mut_push(transactionId, categoryId, existingTags) ==
    [id |-> transactionId, category_id |-> categoryId,
     tags |-> Append(existingTags, firefly_tag)]

updateTransactionCategory(transactionId, categoryId, existingTags) ==
    LET tags == IF \E i \in 1..Len(existingTags) : existingTags[i] = firefly_tag
                THEN existingTags
                ELSE Append(existingTags, firefly_tag)
    IN  [id |-> transactionId, category_id |-> categoryId, tags |-> tags]

\* ================================================================== worker
NoCategory == [id |-> NullId, name |-> NullText]
Skip(reason) ==
    [source |-> "skip", categoryId |-> NullId, categoryName |-> NullText, reason |-> reason]
Decide(source, categoryId, categoryName) ==
    [source |-> source, categoryId |-> categoryId, categoryName |-> categoryName,
     reason |-> ""]
NoDecision == [source |-> "none", categoryId |-> NullId, categoryName |-> NullText,
               reason |-> ""]

\* categories.some((c) => c.id === id)
\* Fault variant: every id is taken to be in the list.
categoryExists_mut_always(cats, id) == TRUE

\* Fault variant: any list with a named category passes.
categoryExists_mut_name(cats, id) == \E i \in 1..Len(cats) : cats[i].id = id \/ cats[i].name # <<>>

categoryExists(cats, id) == \E i \in 1..Len(cats) : cats[i].id = id

\* analyzeHistory(cached, recentTxns)
\* Fault variants: the override carries the oldest categorized transaction;
\* a mixed history gives a cache decision with the newest category.
analyzeHistory_mut_newest(c, recentTxns) ==
    LET categorized == SelectSeq(recentTxns,
                           LAMBDA tx : tx.categoryId # NullId /\ tx.categoryName # NullText)
        allMatchCache == \A i \in 1..Len(categorized) :
                            categorized[i].categoryName = c.category_name
        allDiffer == \A i \in 1..Len(categorized) :
                            categorized[i].categoryName # c.category_name
    IN  IF Len(categorized) = 0
        THEN Decide("cache", c.category_id, c.category_name)
        ELSE IF allMatchCache
        THEN Decide("cache", c.category_id, c.category_name)
        ELSE IF allDiffer
        THEN Decide("firefly-override", categorized[1].categoryId,
                    categorized[1].categoryName)
        ELSE Decide("cache", categorized[1].categoryId, categorized[1].categoryName)

analyzeHistory_mut_oldest(c, recentTxns) ==
    LET categorized == SelectSeq(recentTxns,
                           LAMBDA tx : tx.categoryId # NullId /\ tx.categoryName # NullText)
        allMatchCache == \A i \in 1..Len(categorized) :
                            categorized[i].categoryName = c.category_name
        allDiffer == \A i \in 1..Len(categorized) :
                            categorized[i].categoryName # c.category_name
    IN  IF Len(categorized) = 0
        THEN Decide("cache", c.category_id, c.category_name)
        ELSE IF allMatchCache
        THEN Decide("cache", c.category_id, c.category_name)
        ELSE IF allDiffer
        THEN Decide("firefly-override", categorized[Len(categorized)].categoryId,
                    categorized[Len(categorized)].categoryName)
        ELSE Decide("cache", c.category_id, c.category_name)

analyzeHistory(c, recentTxns) ==
    LET categorized == SelectSeq(recentTxns,
                           LAMBDA tx : tx.categoryId # NullId /\ tx.categoryName # NullText)
        allMatchCache == \A i \in 1..Len(categorized) :
                            categorized[i].categoryName = c.category_name
        allDiffer == \A i \in 1..Len(categorized) :
                            categorized[i].categoryName # c.category_name
    IN  IF Len(categorized) = 0
        THEN Decide("cache", c.category_id, c.category_name)
        ELSE IF allMatchCache
        THEN Decide("cache", c.category_id, c.category_name)
        ELSE IF allDiffer
        THEN Decide("firefly-override", categorized[1].categoryId,
                    categorized[1].categoryName)
        ELSE Decide("cache", c.category_id, c.category_name)

\* ------------------------------------------------- what the collaborators
\* may answer (fireflyService, llmService); drawn afresh at every call
Food == <<"F", "o", "o", "d">>
Fuel == <<"F", "u", "e", "l">>
Old == <<"O", "l", "d">>
cFood == [id |-> "1", name |-> Food]
cFuel == [id |-> "2", name |-> Fuel]
CategoryLists == {<<>>, <<cFood>>, <<cFuel>>, <<cFood, cFuel>>}

tNone == [categoryId |-> NullId, categoryName |-> NullText]
tFood == [categoryId |-> "1", categoryName |-> Food]
tFuel == [categoryId |-> "2", categoryName |-> Fuel]
tOld == [categoryId |-> "3", categoryName |-> Old]
TxnKinds == {tNone, tFood, tFuel, tOld}
MaxHistory == 3
Histories == UNION {[1..n -> TxnKinds] : n \in 0..MaxHistory}

Contents == {Food, <<"f", "u", "e", "l">>, <<" ", "F", "o", "o", "d">>,
             <<"'", "F", "u", "e", "l", "'">>, <<"F", "o", "o">>, Old, <<>>}

\* ---------------------------------------------------------- observers
NewTrace(m) ==
    [merchant |-> m, empty |-> FALSE, hadEntry |-> FALSE, stale |-> FALSE,
     discarded |-> FALSE, nCategories |-> 0, nHistory |-> 0, nSearch |-> 0, nClassifier |-> 0,
     nUpdate |-> 0]
NoTrace == NewTrace("null")

\* last: the store call just made, its arguments and what it returned
Call(op, id, error, maxRetries, m, name, cid, ret) ==
    [op |-> op, id |-> id, error |-> error, maxRetries |-> maxRetries,
     merchantName |-> m, categoryName |-> name, categoryId |-> cid, ret |-> ret,
     raised |-> "none", transactionId |-> "", tags |-> <<>>]
Op(op, id, error) ==
    Call(op, id, error, DefaultMaxRetries, "null", NullText, NullId, NoEntry)
CacheOp(op, m, name, cid, ret) == Call(op, NoJob, NoError, 0, m, name, cid, ret)
NoOp == Op("none", NoJob, NoError)
\* fireflyService.updateTransactionCategory(transactionId, categoryId,
\* existingTags) called for job id: the request it sends
UpdateOp(id, request) ==
    [Op("updateTransactionCategory", id, NoError) EXCEPT
        !.transactionId = request.id, !.categoryId = request.category_id,
        !.tags = request.tags]
\* the call c was made in a step in which the store method `op` threw
Raised(c, op) == [c EXCEPT !.raised = op]
NoInput == [pinned |-> FALSE]
\* What Firefly answers to getCategories() and to
\* getRecentTransactionsByMerchant(): anything at every call, or, when the
\* run holds Firefly's data fixed (SpecPinned), the same answer every time
getCategories == IF input.pinned THEN {input.categories} ELSE CategoryLists
getRecentTransactionsByMerchant == IF input.pinned THEN {input.recentTxns} ELSE Histories

\* ================================================================= Init
Init ==
    /\ jobs = << >>
    /\ seq = 0
    /\ now = 0
    /\ cache = {}
    /\ pc = "poll"
    /\ job = NoJob
    /\ categories = <<>>
    /\ cached = NoEntry
    /\ decision = NoDecision
    /\ delay = -1
    /\ trace = NoTrace
    /\ last = NoOp
    /\ callers = << >>
    /\ input = NoInput
    /\ output = NoDecision

workerVars == <<pc, job, categories, cached, decision, delay, trace>>

\* ============================================== Spec: the running program
\* The clock of CURRENT_TIMESTAMP moves on (up to MaxClock).
Tick ==
    /\ now < MaxClock
    /\ now' = now + 1
    /\ last' = NoOp
    /\ UNCHANGED <<jobs, seq, cache, workerVars, callers, fnVars>>

\* handleWebhook -> queueService.enqueue; runs between any two worker steps
\* (at most MaxJobs jobs are ever enqueued)
Enqueue ==
    /\ seq < MaxJobs
    /\ \E m \in Merchants :
          /\ jobs' = enqueue(jobs, seq, Transaction("t1", m, <<>>), now)
          /\ seq' = seq + 1
          /\ last' = Op("enqueue", seq + 1, NoError)
    /\ UNCHANGED <<now, cache, workerVars, callers, fnVars>>

\* The process dies and is started again: QueueService's constructor runs
\* init(), then index.ts calls startWorker(), which calls poll().  The
\* first conjunct only bounds the attempt counter: the process may die at any
\* moment until some job has been claimed MaxAttempts times.
Restart ==
    /\ \A i \in DOMAIN jobs : jobs[i].attempts < MaxAttempts
    /\ jobs' = init(jobs)
    /\ pc' = "poll"
    /\ job' = NoJob
    /\ categories' = <<>>
    /\ cached' = NoEntry
    /\ decision' = NoDecision
    /\ delay' = -1
    /\ trace' = NoTrace
    /\ last' = Op("init", NoJob, NoError)
    /\ UNCHANGED <<seq, now, cache, callers, fnVars>>

\* poll(): const job = queueService.dequeue(); with no job,
\* setTimeout(poll, POLL_INTERVAL_MS); with one, processJob starts and runs
\* to its first await (fireflyService.getCategories()).
dequeueJob ==
    /\ pc = "poll"
    /\ LET row == select_pending(jobs) IN
         IF row = NoJob
         THEN /\ delay' = POLL_INTERVAL_MS
              /\ last' = Op("dequeue", NoJob, NoError)
              /\ UNCHANGED <<jobs, pc, job, categories, cached, decision, trace>>
         ELSE /\ jobs' = mark_processing(jobs, row)
              /\ job' = row
              /\ pc' = "getCategories"
              /\ trace' = NewTrace(jobs[row].merchantName)
              /\ decision' = NoDecision
              /\ last' = Op("dequeue", row, NoError)
              /\ UNCHANGED <<categories, cached, delay>>
    /\ UNCHANGED <<seq, now, cache, callers>>

Poll == dequeueJob /\ UNCHANGED fnVars

\* poll()'s catch: queueService.fail(job.id, error); setTimeout(poll, 0)
\* Fault variant: the catch swallows the error without calling fail.
Throw_mut_swallow(error) ==
    /\ jobs' = jobs
    /\ last' = NoOp
    /\ pc' = "poll"
    /\ job' = NoJob
    /\ categories' = <<>>
    /\ cached' = NoEntry
    /\ delay' = 0

Throw(error) ==
    /\ jobs' = fail(jobs, job, error, DefaultMaxRetries)
    /\ last' = Op("fail", job, error)
    /\ pc' = "poll"
    /\ job' = NoJob
    /\ categories' = <<>>
    /\ cached' = NoEntry
    /\ delay' = 0

\* processJob returned: queueService.complete(job.id); setTimeout(poll, 0)
\* Fault variant: the next poll waits the poll interval.
Resolve_mut_wait ==
    /\ jobs' = complete(jobs, job)
    /\ last' = Op("complete", job, NoError)
    /\ pc' = "poll"
    /\ job' = NoJob
    /\ categories' = <<>>
    /\ cached' = NoEntry
    /\ delay' = POLL_INTERVAL_MS

Resolve ==
    /\ jobs' = complete(jobs, job)
    /\ last' = Op("complete", job, NoError)
    /\ pc' = "poll"
    /\ job' = NoJob
    /\ categories' = <<>>
    /\ cached' = NoEntry
    /\ delay' = 0

\* decideCategory returned d to processJob: skip returns at once, anything
\* else calls fireflyService.updateTransactionCategory(job.transactionId,
\* decision.categoryId, JSON.parse(job.tags)) and awaits it
\* Fault variant: a skip decision is treated as a failure of the job.
Return_mut_throw(d) ==
    /\ decision' = d
    /\ IF d.source = "skip"
       THEN Throw(d.reason)
       ELSE /\ pc' = "updateTransaction"
            /\ last' = UpdateOp(job, updateTransactionCategory(
                            jobs[job].transactionId, d.categoryId,
                            JSON_parse(jobs[job].tags)))
            /\ UNCHANGED <<jobs, job, categories, cached, delay>>

Return(d) ==
    /\ decision' = d
    /\ IF d.source = "skip"
       THEN Resolve
       ELSE /\ pc' = "updateTransaction"
            /\ last' = UpdateOp(job, updateTransactionCategory(
                            jobs[job].transactionId, d.categoryId,
                            JSON_parse(jobs[job].tags)))
            /\ UNCHANGED <<jobs, job, categories, cached, delay>>

\* decideCategory moves on to the await at `at`
Await(at) ==
    /\ pc' = at
    /\ last' = NoOp
    /\ UNCHANGED <<jobs, job, decision, delay>>

\* categories.length === 0
\* Fault variant: the test is never true.
noCategories_mut_never(cats) == FALSE

noCategories(cats) == Len(cats) = 0

\* getCategories() settles: worker.ts lines 47-91 up to the next await
GetCategories ==
    /\ pc = "getCategories"
    /\ UNCHANGED <<seq, now, callers, fnVars>>
    /\ \/ /\ Throw(ErrCategories)
          /\ trace' = [trace EXCEPT !.nCategories = @ + 1]
          /\ UNCHANGED <<cache, decision>>
       \/ \E cats \in getCategories :
            LET m == jobs[job].merchantName
                c == get(cache, m)
                t == [trace EXCEPT !.nCategories = @ + 1, !.empty = (Len(cats) = 0),
                                   !.hadEntry = (c # NoEntry)]
            IN  IF noCategories(cats)
                THEN /\ Return(Skip("No categories configured in Firefly"))
                     /\ trace' = [trace EXCEPT !.nCategories = @ + 1, !.empty = TRUE]
                     /\ UNCHANGED cache
                ELSE IF c # NoEntry /\ ~categoryExists(cats, c.category_id)
                THEN /\ cache' = invalidate(cache, m)
                     /\ trace' = [t EXCEPT !.stale = TRUE]
                     /\ categories' = cats
                     /\ cached' = c
                     /\ Await("searchMerchant")
                ELSE IF c # NoEntry
                THEN /\ trace' = t
                     /\ categories' = cats
                     /\ cached' = c
                     /\ Await("getRecent1")
                     /\ UNCHANGED cache
                ELSE /\ trace' = t
                     /\ categories' = cats
                     /\ cached' = c
                     /\ Await("searchMerchant")
                     /\ UNCHANGED cache

\* getRecentTransactionsByMerchant() of line 71 settles: analyzeHistory and
\* the override validation, worker.ts lines 76-90
GetRecent1 ==
    /\ pc = "getRecent1"
    /\ UNCHANGED <<seq, now, callers, fnVars>>
    /\ \/ /\ Throw(ErrSearch)
          /\ trace' = [trace EXCEPT !.nHistory = @ + 1]
          /\ UNCHANGED <<cache, decision>>
       \/ \E recentTxns \in getRecentTransactionsByMerchant :
            LET m == jobs[job].merchantName
                d == analyzeHistory(cached, recentTxns)
                t == [trace EXCEPT !.nHistory = @ + 1]
            IN  IF d.source = "firefly-override"
                THEN IF categoryExists(categories, d.categoryId)
                     THEN /\ cache' = updateFromOverride(cache, m, d.categoryName,
                                                         d.categoryId)
                          /\ trace' = t
                          /\ Return(d)
                     ELSE /\ trace' = [t EXCEPT !.discarded = TRUE]
                          /\ Await("searchMerchant")
                          /\ UNCHANGED <<cache, categories, cached>>
                ELSE /\ trace' = t
                     /\ Return(d)
                     /\ UNCHANGED cache

\* searxngService.searchMerchant() settles; it catches everything and
\* returns text or null, which only feeds the prompt
SearchMerchant ==
    /\ pc = "searchMerchant"
    /\ trace' = [trace EXCEPT !.nSearch = @ + 1]
    /\ Await("getRecent2")
    /\ UNCHANGED <<seq, now, cache, categories, cached, callers, fnVars>>

\* getRecentTransactionsByMerchant() of line 97 settles
GetRecent2 ==
    /\ pc = "getRecent2"
    /\ UNCHANGED <<seq, now, cache, callers, fnVars>>
    /\ trace' = [trace EXCEPT !.nHistory = @ + 1]
    /\ \/ /\ Throw(ErrSearch)
          /\ UNCHANGED decision
       \/ /\ Await("categorize")
          /\ UNCHANGED <<categories, cached>>

\* llmService.categorize() settles: llm.ts lines 54-59 and worker.ts
\* lines 111-126
Categorize ==
    /\ pc = "categorize"
    /\ UNCHANGED <<seq, now, callers, fnVars>>
    /\ trace' = [trace EXCEPT !.nClassifier = @ + 1]
    /\ \/ /\ Throw(ErrLLM)
          /\ UNCHANGED <<cache, decision>>
       \/ \E content \in Contents :
            LET m == jobs[job].merchantName
                categoryNames == [i \in 1..Len(categories) |-> categories[i].name]
                llmResult == parseResponse(content, categoryNames)
                category == find(categories,
                                 [i \in 1..Len(categories) |-> categories[i].name = llmResult],
                                 NoCategory)
            IN  IF llmResult = NullText
                THEN /\ Return(Skip("LLM could not determine category"))
                     /\ UNCHANGED cache
                ELSE IF category = NoCategory
                THEN /\ Return(Skip("Category not found"))
                     /\ UNCHANGED cache
                ELSE /\ cache' = set(cache, m, category.name, category.id)
                     /\ Return(Decide("llm", category.id, category.name))

\* updateTransactionCategory() settles: processJob returns or throws
\* Fault variant: a failed update deletes the merchant's cache entry.
UpdateTransaction_mut_rollback ==
    /\ pc = "updateTransaction"
    /\ UNCHANGED <<seq, now, decision, callers, fnVars>>
    /\ trace' = [trace EXCEPT !.nUpdate = @ + 1]
    /\ \/ /\ Throw(ErrUpdate)
          /\ cache' = invalidate(cache, trace.merchant)
       \/ /\ Resolve
          /\ UNCHANGED cache

UpdateTransaction ==
    /\ pc = "updateTransaction"
    /\ UNCHANGED <<seq, now, cache, decision, callers, fnVars>>
    /\ trace' = [trace EXCEPT !.nUpdate = @ + 1]
    /\ \/ Throw(ErrUpdate)
       \/ Resolve

Next ==
    \/ Tick
    \/ Enqueue
    \/ Restart
    \/ Poll
    \/ GetCategories
    \/ GetRecent1
    \/ SearchMerchant
    \/ GetRecent2
    \/ Categorize
    \/ UpdateTransaction

Spec == Init /\ [][Next]_vars

\* ============================= SpecQueue: QueueService called arbitrarily
\* Ids a caller may pass: every id in use and one that does not exist.
JobIds == 1..(MaxJobs + 1)
Errors == {ErrUpdate}
RetryLimits == {1, DefaultMaxRetries}
queueFrame == <<cache, workerVars, callers, fnVars>>

QEnqueue ==
    /\ seq < MaxJobs
    /\ \E m \in Merchants :
          /\ jobs' = enqueue(jobs, seq, Transaction("t1", m, <<>>), now)
          /\ seq' = seq + 1
          /\ last' = Op("enqueue", seq + 1, NoError)
    /\ UNCHANGED <<now, queueFrame>>

QDequeue ==
    /\ LET row == select_pending(jobs) IN
         /\ row # NoJob => jobs[row].attempts < MaxAttempts
         /\ jobs' = IF row = NoJob THEN jobs ELSE mark_processing(jobs, row)
         /\ last' = Op("dequeue", row, NoError)
    /\ UNCHANGED <<seq, now, queueFrame>>

QComplete ==
    /\ \E jobId \in JobIds :
          /\ jobs' = complete(jobs, jobId)
          /\ last' = Op("complete", jobId, NoError)
    /\ UNCHANGED <<seq, now, queueFrame>>

QFail ==
    /\ \E jobId \in JobIds, error \in Errors, maxRetries \in RetryLimits :
          /\ jobs' = fail(jobs, jobId, error, maxRetries)
          /\ last' = Call("fail", jobId, error, maxRetries, "null", NullText, NullId,
                          NoEntry)
    /\ UNCHANGED <<seq, now, queueFrame>>

QInit ==
    /\ jobs' = init(jobs)
    /\ last' = Op("init", NoJob, NoError)
    /\ UNCHANGED <<seq, now, queueFrame>>

NextQueue == QEnqueue \/ QDequeue \/ QComplete \/ QFail \/ QInit

SpecQueue == Init /\ [][NextQueue]_vars

\* ============================= SpecCache: CacheService called arbitrarily
CacheNames == {Food, Fuel}
CacheIds == {"1", "2"}
cacheFrame == <<jobs, seq, now, workerVars, callers, fnVars>>

CGet ==
    /\ \E m \in CacheMerchants :
          last' = CacheOp("get", m, NullText, NullId, get(cache, m))
    /\ UNCHANGED <<cache, cacheFrame>>

CSet ==
    /\ \E m \in CacheMerchants, n \in CacheNames, i \in CacheIds :
          /\ cache' = set(cache, m, n, i)
          /\ last' = CacheOp("set", m, n, i, NoEntry)
    /\ UNCHANGED cacheFrame

CUpdateFromOverride ==
    /\ \E m \in CacheMerchants, n \in CacheNames, i \in CacheIds :
          /\ cache' = updateFromOverride(cache, m, n, i)
          /\ last' = CacheOp("updateFromOverride", m, n, i, NoEntry)
    /\ UNCHANGED cacheFrame

CInvalidate ==
    /\ \E m \in CacheMerchants :
          /\ cache' = invalidate(cache, m)
          /\ last' = CacheOp("invalidate", m, NullText, NullId, NoEntry)
    /\ UNCHANGED cacheFrame

NextCache == CGet \/ CSet \/ CUpdateFromOverride \/ CInvalidate

SpecCache == Init /\ [][NextCache]_vars

\* ================== SpecClaim: processes sharing one database file
\* Every process runs poll(); a statement of dequeue() is one atomic step of
\* SQLite, and nothing joins the SELECT and the UPDATE into one transaction.
NumCallers == 2
Procs == 1..NumCallers
claimFrame == <<cache, workerVars, fnVars>>

InitClaim ==
    /\ jobs = << >>
    /\ seq = 0
    /\ now = 0
    /\ cache = {}
    /\ pc = "poll"
    /\ job = NoJob
    /\ categories = <<>>
    /\ cached = NoEntry
    /\ decision = NoDecision
    /\ delay = -1
    /\ trace = NoTrace
    /\ last = NoOp
    /\ callers = [p \in Procs |-> [pc |-> "poll", row |-> NoJob, job |-> NoJob]]
    /\ input = NoInput
    /\ output = NoDecision

\* dequeue() lines 88-112: the SELECT, and the return of null
DSelect(p) ==
    /\ callers[p].pc = "poll"
    /\ LET row == select_pending(jobs) IN
         /\ row # NoJob => jobs[row].attempts < MaxAttempts
         /\ callers' = [callers EXCEPT ![p] =
                IF row = NoJob THEN @ ELSE [@ EXCEPT !.pc = "selected", !.row = row]]
         /\ last' = IF row = NoJob THEN Op("dequeue", NoJob, NoError) ELSE NoOp
    /\ UNCHANGED <<jobs, seq, now, claimFrame>>

\* dequeue() lines 115-135: the UPDATE, and the return of the job
DUpdate(p) ==
    /\ callers[p].pc = "selected"
    /\ jobs' = mark_processing(jobs, callers[p].row)
    /\ callers' = [callers EXCEPT ![p] =
                      [pc |-> "processing", row |-> NoJob, job |-> callers[p].row]]
    /\ last' = Op("dequeue", callers[p].row, NoError)
    /\ UNCHANGED <<seq, now, claimFrame>>

\* poll() lines 186-192: processJob returned or threw
DResolve(p) ==
    /\ callers[p].pc = "processing"
    /\ \/ /\ jobs' = complete(jobs, callers[p].job)
          /\ last' = Op("complete", callers[p].job, NoError)
       \/ /\ jobs' = fail(jobs, callers[p].job, ErrUpdate, DefaultMaxRetries)
          /\ last' = Op("fail", callers[p].job, ErrUpdate)
    /\ callers' = [callers EXCEPT ![p] = [pc |-> "poll", row |-> NoJob, job |-> NoJob]]
    /\ UNCHANGED <<seq, now, claimFrame>>

DEnqueue ==
    /\ seq < MaxJobs
    /\ \E m \in Merchants :
          /\ jobs' = enqueue(jobs, seq, Transaction("t1", m, <<>>), now)
          /\ seq' = seq + 1
          /\ last' = Op("enqueue", seq + 1, NoError)
    /\ UNCHANGED <<now, callers, claimFrame>>

NextClaim ==
    \/ DEnqueue
    \/ \E p \in Procs : DSelect(p)
    \/ \E p \in Procs : DUpdate(p)
    \/ \E p \in Procs : DResolve(p)

SpecClaim == InitClaim /\ [][NextClaim]_vars

\* ====== SpecUpdate: the running program on webhooks that differ in their
\* transaction id and tags.  Without Tick and Restart.
TransactionIds == {"t1", "t2"}
TagLists == {<<"b", "a">>, <<firefly_tag, "a">>}

EnqueueTagged ==
    /\ seq < MaxJobs
    /\ \E id \in TransactionIds, m \in Merchants, tags \in TagLists :
          /\ jobs' = enqueue(jobs, seq, Transaction(id, m, tags), now)
          /\ seq' = seq + 1
          /\ last' = [Op("enqueue", seq + 1, NoError) EXCEPT
                            !.transactionId = id, !.tags = tags]
    /\ UNCHANGED <<now, cache, workerVars, callers, fnVars>>

NextUpdate ==
    \/ EnqueueTagged \/ Poll \/ GetCategories \/ GetRecent1 \/ SearchMerchant
    \/ GetRecent2 \/ Categorize \/ UpdateTransaction

SpecUpdate == Init /\ [][NextUpdate]_vars

\* ============ SpecStorage: the running program on a database that may fail
\* Any statement of QueueService / CacheService may throw (bun:sqlite raises
\* from db.run / stmt.run / query.get); a statement that throws changes
\* nothing.  Without Tick and Restart.
\* poll's promise rejects: nothing awaits it, setTimeout is not reached
Stopped(c) ==
    /\ pc' = "stopped"
    /\ last' = c
    /\ UNCHANGED <<jobs, job, categories, cached, delay>>

\* an error thrown inside poll's try block by the store method `op`: the
\* catch calls queueService.fail(job.id, err.message), which succeeds or
\* throws in its turn
Caught(op) ==
    \/ /\ jobs' = fail(jobs, job, ErrStorage, DefaultMaxRetries)
       /\ last' = Raised(Op("fail", job, ErrStorage), op)
       /\ pc' = "poll"
       /\ job' = NoJob
       /\ categories' = <<>>
       /\ cached' = NoEntry
       /\ delay' = 0
    \/ Stopped(Raised(Op("fail", job, ErrStorage), op))

\* queueService.dequeue() throws: it is called outside the try block
DequeueRaises ==
    /\ pc = "poll"
    /\ Stopped(Raised(Op("dequeue", NoJob, NoError), "dequeue"))
    /\ UNCHANGED <<seq, now, cache, decision, trace, callers, fnVars>>

\* a CacheService method throws inside decideCategory
CacheRaises ==
    /\ UNCHANGED <<seq, now, cache, decision, callers, fnVars>>
    /\ \/ /\ pc = "getCategories"
          /\ trace' = [trace EXCEPT !.nCategories = @ + 1]
          /\ \E cats \in getCategories :
                LET c == get(cache, jobs[job].merchantName) IN
                /\ Len(cats) > 0
                /\ \/ Caught("get")
                   \/ (c # NoEntry /\ ~categoryExists(cats, c.category_id)
                         /\ Caught("invalidate"))
       \/ /\ pc = "getRecent1"
          /\ trace' = [trace EXCEPT !.nHistory = @ + 1]
          /\ \E recentTxns \in getRecentTransactionsByMerchant :
                LET d == analyzeHistory(cached, recentTxns) IN
                /\ d.source = "firefly-override"
                /\ categoryExists(categories, d.categoryId)
                /\ Caught("updateFromOverride")
       \/ /\ pc = "categorize"
          /\ trace' = [trace EXCEPT !.nClassifier = @ + 1]
          /\ \E content \in Contents :
                LET categoryNames == [i \in 1..Len(categories) |-> categories[i].name]
                IN  /\ parseResponse(content, categoryNames) # NullText
                    /\ Caught("set")

\* updateTransactionCategory resolved and queueService.complete(job.id)
\* throws: it is called inside the try block (complete after a skip
\* decision is caught the same way)
CompleteRaises ==
    /\ pc = "updateTransaction"
    /\ trace' = [trace EXCEPT !.nUpdate = @ + 1]
    /\ Caught("complete")
    /\ UNCHANGED <<seq, now, cache, decision, callers, fnVars>>

\* a collaborator failed and queueService.fail(job.id, error) throws
FailRaises ==
    /\ pc \in {"getCategories", "getRecent1", "getRecent2", "categorize", "updateTransaction"}
    /\ \E error \in {ErrCategories, ErrSearch, ErrLLM, ErrUpdate} :
            Stopped(Raised(Op("fail", job, error), "fail"))
    /\ UNCHANGED <<seq, now, cache, decision, trace, callers, fnVars>>

NextStorage ==
    \/ Enqueue \/ Poll \/ GetCategories \/ GetRecent1 \/ SearchMerchant \/ GetRecent2
    \/ Categorize \/ UpdateTransaction
    \/ DequeueRaises \/ CacheRaises \/ CompleteRaises \/ FailRaises

SpecStorage == Init /\ [][NextStorage]_vars

\* ====================== SpecHistory: analyzeHistory applied to one input
\* The cache entry is one that passed the check of worker.ts 56-58; the
\* history is what getRecentTransactionsByMerchant returned, newest first.
CachedEntries ==
    {[merchant_name |-> "shop", category_name |-> Food, category_id |-> "1"],
     [merchant_name |-> "shop", category_name |-> Fuel, category_id |-> "2"]}

InitHistory ==
    /\ jobs = << >>
    /\ seq = 0
    /\ now = 0
    /\ cache = {}
    /\ pc = "poll"
    /\ job = NoJob
    /\ categories = <<>>
    /\ cached = NoEntry
    /\ decision = NoDecision
    /\ delay = -1
    /\ trace = NoTrace
    /\ last = NoOp
    /\ callers = << >>
    /\ input \in [cached : CachedEntries, recentTxns : Histories]
    /\ output = NoDecision

HAnalyze ==
    /\ output = NoDecision
    /\ output' = analyzeHistory(input.cached, input.recentTxns)
    /\ UNCHANGED <<jobs, seq, now, cache, workerVars, last, callers, input>>

NextHistory == HAnalyze

SpecHistory == InitHistory /\ [][NextHistory]_vars

\* ============ SpecResolve: the classifier's answer resolved to a decision
\* (llmService.categorize returning, worker.ts 102-126), on category lists
\* in which one name is part of another
Foo == <<"F", "o", "o">>
cFoo == [id |-> "4", name |-> Foo]
ResolveLists ==
    {<<cFood>>, <<cFood, cFuel>>, <<cFuel, cFood>>, <<cFoo, cFood>>, <<cFood, cFoo>>,
     <<cFuel, cFoo, cFood>>}
ResolveContents ==
    Contents \cup {<<"f", "O", "O", "d">>, <<"\"", "F", "o", "o", "d", "\"">>,
                   <<"F", "u", "e", "l", "s">>, <<"o", "o">>}
ResolveCaches == {{}, {[merchant_name |-> "shop", category_name |-> Fuel, category_id |-> "2"]}}

InitResolve ==
    /\ jobs = << >>
    /\ seq = 0
    /\ now = 0
    /\ cache \in ResolveCaches
    /\ pc = "poll"
    /\ job = NoJob
    /\ categories = <<>>
    /\ cached = NoEntry
    /\ decision = NoDecision
    /\ delay = -1
    /\ trace = NoTrace
    /\ last = NoOp
    /\ callers = << >>
    /\ \E cs \in ResolveLists, c \in ResolveContents :
            input = [categories |-> cs, content |-> c, cache |-> cache]
    /\ output = NoDecision

RResolve ==
    /\ output = NoDecision
    /\ LET cats == input.categories
           categoryNames == [i \in 1..Len(cats) |-> cats[i].name]
           llmResult == parseResponse(input.content, categoryNames)
           category == find(cats, [i \in 1..Len(cats) |-> cats[i].name = llmResult],
                            NoCategory)
       IN  IF llmResult = NullText
           THEN /\ output' = Skip("LLM could not determine category")
                /\ UNCHANGED cache
           ELSE IF category = NoCategory
           THEN /\ output' = Skip("Category not found")
                /\ UNCHANGED cache
           ELSE /\ cache' = set(cache, "shop", category.name, category.id)
                /\ output' = Decide("llm", category.id, category.name)
    /\ UNCHANGED <<jobs, seq, now, workerVars, last, callers, input>>

NextResolve == RResolve

SpecResolve == InitResolve /\ [][NextResolve]_vars

\* ====== SpecPinned: the running program while Firefly's categories and the
\* merchant's recent transactions stay as they are, on a database that
\* may already hold a cache entry.  Without Tick and Restart.
PinnedHistories == {h \in Histories : Len(h) <= 2}

InitPinned ==
    /\ jobs = << >>
    /\ seq = 0
    /\ now = 0
    /\ cache \in ResolveCaches
    /\ pc = "poll"
    /\ job = NoJob
    /\ categories = <<>>
    /\ cached = NoEntry
    /\ decision = NoDecision
    /\ delay = -1
    /\ trace = NoTrace
    /\ last = NoOp
    /\ callers = << >>
    /\ \E cs \in CategoryLists, h \in PinnedHistories :
            input = [pinned |-> TRUE, categories |-> cs, recentTxns |-> h]
    /\ output = NoDecision

\* poll(), and an observer: output keeps the decision the last claim that
\* decided returned to processJob, for comparison with the next one
PollPinned ==
    /\ dequeueJob
    /\ output' = IF decision = NoDecision THEN output ELSE decision
    /\ UNCHANGED input

NextPinned ==
    \/ Enqueue \/ PollPinned \/ GetCategories \/ GetRecent1 \/ SearchMerchant \/ GetRecent2
    \/ Categorize \/ UpdateTransaction

SpecPinned == InitPinned /\ [][NextPinned]_vars

\* ======================= SpecLive: no crash, the worker is scheduled fairly
\* Every await of processJob settles and every setTimeout(poll, ...) fires:
\* whichever step the worker is at is eventually taken.  Webhooks arrive at
\* any moment and are under no obligation to arrive.
WorkerStep ==
    \/ Poll \/ GetCategories \/ GetRecent1 \/ SearchMerchant \/ GetRecent2
    \/ Categorize \/ UpdateTransaction

NextLive == Tick \/ Enqueue \/ WorkerStep

SpecLive == Init /\ [][NextLive]_vars /\ WF_vars(WorkerStep)

\* ================================================================ claims
Allowed ==
    {<<"pending", "processing">>, <<"processing", "completed">>,
     <<"processing", "pending">>, <<"processing", "failed">>}

C2_ClaimExclusive ==
    [][/\ \A p, q \in Procs :
            (p # q /\ callers'[p].job # NoJob) => callers'[p].job # callers'[q].job
       /\ \A i \in DOMAIN jobs :
            jobs'[i].attempts # jobs[i].attempts => jobs[i].status = "pending"]_vars

\* C3 (Spec): a claim returns the pending job with the smallest id (ids
\* grow with enqueue order), whatever its attempt count, and returns no job
\* exactly when nothing is pending.
C3_OldestFirst ==
    [][last'.op = "dequeue" =>
         IF Pending(jobs) = {}
         THEN last'.id = NoJob
         ELSE /\ last'.id \in Pending(jobs)
              /\ \A k \in Pending(jobs) : last'.id <= k]_vars

\* C3 witness: the older job is claimed for the second time while a younger
\* job that was never claimed waits
C3_Witness ==
    /\ last.op = "dequeue"
    /\ last.id = 1
    /\ 2 \in Pending(jobs)
    /\ jobs[1].attempts = 2
    /\ jobs[2].attempts = 0

\* C4 (Spec): the worker's fail (maxRetries = 3) leaves the job pending when
\* its attempt count is below 3 and failed otherwise, and stores the message
\* either way; a failed job stays failed, is never claimed again and is not
\* among the jobs getPendingCount counts.
C4_RetryRule ==
    [][\A i \in DOMAIN jobs :
         /\ (last'.op = "fail" /\ last'.id = i) =>
               /\ last'.maxRetries = 3
               /\ jobs'[i].status =
                     (IF jobs[i].attempts < last'.maxRetries THEN "pending" ELSE "failed")
               /\ jobs'[i].error = last'.error
               /\ jobs'[i].error # NoError
         /\ jobs[i].status = "failed" =>
               /\ jobs'[i].status = "failed"
               /\ ~(last'.op = "dequeue" /\ last'.id = i)
               /\ getPendingCount(jobs') =
                     Cardinality({k \in DOMAIN jobs' \ {i} : jobs'[k].status = "pending"})]_vars

\* C4 witness: the third failure has just made a job failed
C4_Witness ==
    /\ last.op = "fail"
    /\ last.id \in DOMAIN jobs
    /\ jobs[last.id].status = "failed"
    /\ jobs[last.id].attempts = 3
    /\ jobs[last.id].error = last.error

\* C5 (Spec): no job is ever claimed more than 3 times, and a job that has
\* used 3 attempts and is neither being processed nor completed is failed
\* with an error message.
C5_RetryCap ==
    \A i \in DOMAIN jobs :
        /\ jobs[i].attempts <= 3
        /\ (jobs[i].attempts = 3 /\ jobs[i].status \notin {"processing", "completed"})
              => (jobs[i].status = "failed" /\ jobs[i].error # NoError)

\* C6 (SpecQueue): init() turns every processing job into a pending one and
\* changes nothing else: the other statuses, all attempt counts and errors,
\* and the set of jobs stay; afterwards nothing is processing and
\* getPendingCount has grown by the number of jobs that were reset.
C6_Recovery ==
    [][last'.op = "init" =>
         LET stuck == {i \in DOMAIN jobs : jobs[i].status = "processing"} IN
         /\ DOMAIN jobs' = DOMAIN jobs
         /\ \A i \in stuck : jobs'[i].status = "pending"
         /\ \A i \in DOMAIN jobs \ stuck : jobs'[i].status = jobs[i].status
         /\ \A i \in DOMAIN jobs :
               /\ jobs'[i].attempts = jobs[i].attempts
               /\ jobs'[i].error = jobs[i].error
               /\ jobs'[i].status # "processing"
         /\ getPendingCount(jobs') = getPendingCount(jobs) + Cardinality(stuck)]_vars

\* C6 witness: init() has just run and two jobs sit pending with one attempt
\* used and no error, which only a reset produces
C6_Witness ==
    /\ last.op = "init"
    /\ Cardinality({i \in DOMAIN jobs : /\ jobs[i].status = "pending"
                                        /\ jobs[i].attempts = 1
                                        /\ jobs[i].error = NoError}) = 2
    /\ getPendingCount(jobs) = 2

\* C7 (SpecQueue): complete(jobId) turns a processing job into a completed
\* one; with an id that does not exist, or the id of a completed or failed
\* job, it leaves every job's status as it was.
C7_CompleteGuard ==
    [][last'.op = "complete" =>
         LET id == last'.id IN
         /\ (id \in DOMAIN jobs /\ jobs[id].status = "processing")
               => jobs'[id].status = "completed"
         /\ (id \notin DOMAIN jobs \/ jobs[id].status \in {"completed", "failed"})
               => \A i \in DOMAIN jobs : jobs'[i].status = jobs[i].status]_vars

\* C8 (SpecQueue): enqueue adds exactly one job, pending with 0 attempts,
\* under an id above every existing id, and changes no existing job; no
\* call removes a job.
C8_Enqueue ==
    [][/\ DOMAIN jobs \subseteq DOMAIN jobs'
       /\ last'.op # "enqueue" => DOMAIN jobs' = DOMAIN jobs
       /\ last'.op = "enqueue" =>
             LET new == DOMAIN jobs' \ DOMAIN jobs IN
             /\ new = {last'.id}
             /\ jobs'[last'.id].status = "pending"
             /\ jobs'[last'.id].attempts = 0
             /\ jobs'[last'.id].error = NoError
             /\ \A k \in DOMAIN jobs : k < last'.id /\ jobs'[k] = jobs[k]]_vars

\* C8 witness: a second job was enqueued after the first had been claimed
\* and had failed for good
C8_Witness ==
    /\ last.op = "enqueue"
    /\ last.id = 2
    /\ jobs[1].status = "failed"
    /\ jobs[2].status = "pending"

\* C9 (SpecCache): the table holds at most one row per merchant; set makes
\* the merchant's row exactly (name, id); updateFromOverride does the same
\* when the merchant has a row and nothing when it has none; invalidate
\* removes the merchant's row; get returns the merchant's row or null and
\* writes nothing; no call touches another merchant's row.
Rows(C, m) == {r \in C : r.merchant_name = m}
Entry(m, name, id) == [merchant_name |-> m, category_name |-> name, category_id |-> id]
C9_PartialMap ==
    [][LET m == last'.merchantName
           e == Entry(m, last'.categoryName, last'.categoryId)
       IN
       /\ \A k \in CacheMerchants : Cardinality(Rows(cache', k)) <= 1
       /\ \A k \in CacheMerchants \ {m} : Rows(cache', k) = Rows(cache, k)
       /\ last'.op = "set" => Rows(cache', m) = {e} /\ get(cache', m) = e
       /\ last'.op = "updateFromOverride" =>
             IF Rows(cache, m) = {} THEN cache' = cache ELSE Rows(cache', m) = {e}
       /\ last'.op = "invalidate" =>
             /\ Rows(cache', m) = {}
             /\ get(cache', m) = NoEntry
             /\ invalidate(cache', m) = cache'
       /\ last'.op = "get" =>
             /\ cache' = cache
             /\ IF Rows(cache, m) = {} THEN last'.ret = NoEntry
                                       ELSE Rows(cache, m) = {last'.ret}]_vars

\* C9 witness: get has just returned a row that a second set for the same
\* merchant had overwritten, while the other merchant has a row of its own
C9_Witness ==
    /\ last.op = "get"
    /\ last.merchantName = "shop"
    /\ last.ret = Entry("shop", Fuel, "2")
    /\ Entry("cafe", Food, "1") \in cache

\* C10 (Spec): when the cached category id is not in the fetched list, the
\* step that finds this deletes the merchant's row, calls neither fail nor
\* complete and goes on to the merchant search of the classifier path; the
\* decision never fetches history for override detection, the row stays
\* absent until the classifier resolves, and the decision returned is llm
\* or skip.
OnClassifierPath == pc \in {"searchMerchant", "getRecent2", "categorize"}
C10_State ==
    trace.stale =>
        /\ trace.hadEntry
        /\ pc # "getRecent1"
        /\ trace.nHistory <= trace.nSearch
        /\ OnClassifierPath => get(cache, trace.merchant) = NoEntry
        /\ decision # NoDecision => decision.source \in {"llm", "skip"}
CarryingCategory(txns) ==
    SelectSeq(txns, LAMBDA tx : tx.categoryId # NullId /\ tx.categoryName # NullText)

C11_HistoryDecision ==
    output # NoDecision =>
        LET C == CarryingCategory(input.recentTxns)
            name == input.cached.category_name
            same == {i \in 1..Len(C) : C[i].categoryName = name}
        IN  IF C # <<>> /\ same = {}
            THEN output = [source |-> "firefly-override", categoryId |-> C[1].categoryId,
                           categoryName |-> C[1].categoryName, reason |-> ""]
            ELSE output = [source |-> "cache", categoryId |-> input.cached.category_id,
                           categoryName |-> name, reason |-> ""]

\* an override taken from a history whose newest transaction carries no
\* category and whose categorized transactions disagree with each other
C11_Witness ==
    /\ output # NoDecision
    /\ output.source = "firefly-override"
    /\ Len(input.recentTxns) = 3
    /\ input.recentTxns[1] = tNone
    /\ input.recentTxns[3] # tNone
    /\ input.recentTxns[2].categoryName # input.recentTxns[3].categoryName
    /\ output.categoryName = input.recentTxns[2].categoryName

\* C12: the name a text resolves to in a category list: the first name equal
\* to it ignoring case; if none, the first name that contains it or is
\* contained in it, ignoring case; 0 if there is none
Resolved(cats, text) ==
    LET t == toLowerCase(text)
        Equal == {i \in 1..Len(cats) : toLowerCase(cats[i].name) = t}
        Contain == {i \in 1..Len(cats) :
                      \/ includes(toLowerCase(cats[i].name), t)
                      \/ includes(t, toLowerCase(cats[i].name))}
        First(S) == CHOOSE i \in S : \A k \in S : i <= k
    IN  IF Equal # {} THEN First(Equal)
        ELSE IF Contain # {} THEN First(Contain)
        ELSE 0

ResolutionOf(text) ==
    output # NoDecision =>
        LET k == Resolved(input.categories, text)
        IN  IF k = 0
            THEN output.source = "skip" /\ cache = input.cache
            ELSE /\ output.source = "llm"
                 /\ output.categoryId = input.categories[k].id
                 /\ output.categoryName = input.categories[k].name

\* C12 as stated (SpecResolve): the response text itself is resolved by exact
\* case-insensitive equality first, then by substring containment in either
\* direction (first such name in list order); if neither matches, the
\* decision is skip and the cache is unchanged.
C12_ResponseText == ResolutionOf(input.content)

\* C12 amended (SpecResolve): the same resolution, applied to the response
\* text after surrounding whitespace and one leading and one trailing quote
\* character have been removed.
C12_Resolution == ResolutionOf(stripQuotes(trim(input.content)))

\* "Food" resolved in the list Foo, Food: the exact match wins over the
\* substring match that comes first in the list
C12_Witness ==
    /\ output # NoDecision
    /\ input.categories = <<cFoo, cFood>>
    /\ input.content = Food
    /\ output.categoryName = Food

\* C13 (Spec): when the decision for the claimed job is skip, the worker issues
\* no category update and marks the job completed in the same step; a
\* completed job stays completed.
SkipReturned == decision.source # "skip" /\ decision'.source = "skip"

C13_SkipCompletes ==
    [][ /\ SkipReturned =>
            /\ last' = Op("complete", job, NoError)
            /\ jobs'[job].status = "completed"
            /\ pc' = "poll"
            /\ trace'.nUpdate = 0
        /\ \A i \in DOMAIN jobs :
            jobs[i].status = "completed" => jobs'[i].status = "completed" ]_vars

\* a skip from the classifier path, the job completed without any update
C13_Witness ==
    /\ decision.source = "skip"
    /\ last.op = "complete"
    /\ jobs[last.id].status = "completed"
    /\ trace.nClassifier = 1
    /\ trace.nUpdate = 0

\* C14 (Spec): an error of a collaborator while a claimed job is processed
\* (category fetch, history fetch, classifier call, transaction update) ends
\* that processing with exactly one fail(job.id, message, 3) carrying the
\* collaborator's message; the job is then pending or failed, no job is
\* left processing when the worker polls again, and the next poll is
\* scheduled (setTimeout(poll, 0)).
ErrorsAt(at) ==
    CASE at = "getCategories" -> {ErrCategories}
      [] at \in {"getRecent1", "getRecent2"} -> {ErrSearch}
      [] at = "categorize" -> {ErrLLM}
      [] at = "updateTransaction" -> {ErrUpdate}
      [] OTHER -> {}

C14_ErrorHandled ==
    [][ /\ (pc # "poll" /\ pc' = "poll" /\ last'.op # "init") =>
            /\ last'.op \in {"complete", "fail"}
            /\ last'.id = job
            /\ delay' = 0
        /\ last'.op = "fail" =>
            /\ last' = Op("fail", job, last'.error)
            /\ last'.maxRetries = 3
            /\ last'.error \in ErrorsAt(pc)
            /\ jobs[job].status = "processing"
            /\ jobs'[job].status \in {"pending", "failed"}
            /\ jobs'[job].error = last'.error
            /\ pc' = "poll"
            /\ delay' = 0
        /\ last.op = "fail" => last'.op # "fail"
        /\ pc' = "poll" => \A i \in DOMAIN jobs' : jobs'[i].status # "processing" ]_vars

\* the classifier call failed on the job's third attempt: the job is failed
\* and the worker is back at poll with a zero delay
C14_Witness ==
    /\ last.op = "fail"
    /\ last.error = ErrLLM
    /\ jobs[last.id].status = "failed"
    /\ jobs[last.id].attempts = 3
    /\ pc = "poll"
    /\ delay = 0

\* C15 (SpecStorage): when dequeue, a cache operation of the decision (get,
\* set, invalidate, updateFromOverride) or complete raises a storage error,
\* the error propagates (the worker stops) and no fail() call is made for
\* it: the job's row is left as it was.
C15_StorageFatal ==
    [][ last'.raised \in {"dequeue", "get", "set", "invalidate", "updateFromOverride",
                          "complete"} =>
            /\ pc' = "stopped"
            /\ last'.op # "fail"
            /\ jobs' = jobs ]_vars

\* C16 (Spec): at most one job is processing; the worker claims a job only
\* when it holds none and no job is processing, and it lets go of the job
\* it holds only by complete or fail on that job (or by dying: the restart
\* runs init); webhook enqueues may run at every suspension point.
Processing(J) == {i \in DOMAIN J : J[i].status = "processing"}

C16_SingleActive ==
    [][ /\ Cardinality(Processing(jobs')) <= 1
        /\ (job' # NoJob) => Processing(jobs') = {job'}
        /\ (last'.op = "dequeue" /\ last'.id # NoJob) =>
                (job = NoJob /\ Processing(jobs) = {} /\ job' = last'.id)
        /\ (job # NoJob /\ job' # job) =>
                \/ last' = Op("complete", job, NoError)
                \/ last' = Op("fail", job, last'.error)
                \/ last'.op = "init" ]_vars

\* a webhook enqueued a second job while the worker was waiting for the
\* classifier with the first one
C16_Witness ==
    /\ pc = "categorize"
    /\ last.op = "enqueue"
    /\ Processing(jobs) = {job}
    /\ Pending(jobs) = {last.id}

\* C17 (SpecUpdate): a job's row keeps the tags it was enqueued with; a
\* non-skip decision is followed at once by one category update for the
\* job's transaction id, with the decision's category id and the job's
\* tags in their order, the configured tag added at the end only when it is
\* not among them; no update is issued at any other moment; a job with a
\* non-skip decision is completed only in the step in which its update
\* succeeds, and is not completed when the update fails.
StoredTags(row) == CHOOSE tags \in TagLists \cup {<<>>} : JSON_stringify(tags) = row.tags

WithTag(tags) ==
    IF \E i \in 1..Len(tags) : tags[i] = firefly_tag THEN tags
    ELSE tags \o <<firefly_tag>>

Decided == decision.source = "none" /\ decision'.source \notin {"none", "skip"}

C17_OneUpdate ==
    [][ /\ last'.op = "enqueue" =>
            JSON_stringify(last'.tags) = jobs'[last'.id].tags
        /\ \A i \in DOMAIN jobs : jobs'[i].tags = jobs[i].tags
                                  /\ jobs'[i].transactionId = jobs[i].transactionId
        /\ Decided =>
            /\ last'.op = "updateTransactionCategory"
            /\ last'.id = job
            /\ last'.transactionId = jobs[job].transactionId
            /\ last'.categoryId = decision'.categoryId
            /\ last'.tags = WithTag(StoredTags(jobs[job]))
            /\ jobs'[job].status = "processing"
        /\ last'.op = "updateTransactionCategory" => Decided
        /\ (pc = "updateTransaction" /\ last'.op = "complete") =>
            (trace'.nUpdate = 1 /\ last'.id = job)
        /\ (last'.op = "complete" /\ decision'.source # "skip") =>
            pc = "updateTransaction"
        /\ (pc = "updateTransaction" /\ last'.op = "fail") =>
            jobs'[job].status # "completed" ]_vars

\* the update for the second job: its own transaction id, its tags b, a in
\* that order and the configured tag after them
C17_Witness ==
    /\ last.op = "updateTransactionCategory"
    /\ last.id = 2
    /\ last.transactionId = "t2"
    /\ jobs[1].transactionId = "t1"
    /\ last.tags = <<"b", "a", firefly_tag>>

\* C18 (Spec): when the fetched category list is empty the decision is skip,
\* whether or not the merchant has a cache entry; the cache is unchanged
\* and no history, merchant-context or classifier call is made for that
\* claim.
C18_EmptyList ==
    [][ /\ (trace'.empty /\ ~trace.empty) =>
            /\ pc = "getCategories"
            /\ decision'.source = "skip"
            /\ cache' = cache
            /\ pc' = "poll"
        /\ trace'.empty =>
            /\ trace'.nHistory = 0
            /\ trace'.nSearch = 0
            /\ trace'.nClassifier = 0
            /\ trace'.nUpdate = 0 ]_vars

\* the list came back empty for a merchant that has a cache entry
C18_Witness ==
    /\ trace.empty
    /\ decision.source = "skip"
    /\ get(cache, trace.merchant) # NoEntry
    /\ last.op = "complete"

\* C19 (Spec): an override decision is returned only with a category id of
\* the fetched list, and the merchant's cache entry then carries the
\* override's name and id; an override whose id is not in the list is
\* discarded without touching the cache, the decision goes on to the
\* merchant search, and what is finally returned for that claim is a model
\* decision or a skip.
Ids(cats) == {cats[i].id : i \in 1..Len(cats)}

C19_OverrideValidated ==
    [][ /\ (decision.source = "none" /\ decision'.source = "firefly-override") =>
            /\ pc = "getRecent1"
            /\ decision'.categoryId \in Ids(categories)
            /\ get(cache, trace.merchant) # NoEntry
            /\ get(cache', trace.merchant) =
                    [merchant_name |-> trace.merchant,
                     category_name |-> decision'.categoryName,
                     category_id |-> decision'.categoryId]
        /\ (trace'.discarded /\ ~trace.discarded) =>
            /\ pc = "getRecent1"
            /\ pc' = "searchMerchant"
            /\ cache' = cache
            /\ decision' = decision
        /\ trace'.discarded => decision'.source \in {"none", "llm", "skip"} ]_vars

\* an override naming a category that is not in the list was discarded and
\* the classifier decided instead
C19_Witness ==
    /\ trace.discarded
    /\ decision.source = "llm"
    /\ trace.nSearch = 1
    /\ trace.nClassifier = 1

\* C20 (SpecResolve): when the classifier's response carries no text (empty
\* or missing content) the decision is skip: no category is resolved and
\* nothing is written to the cache.
C20_NoProposal ==
    (output # NoDecision /\ input.content = <<>>) =>
        /\ output.source = "skip"
        /\ output.categoryId = NullId
        /\ cache = input.cache

\* C21 (Spec): in the step that returns a model decision the merchant's
\* cache rows become exactly the resolved category (name, id), whether the
\* merchant had a row or not; in the step that returns an override decision
\* they become exactly the override's category; every other step of the
\* worker leaves the cache as it is or only deletes from it, so a claim
\* that ends in skip has written nothing.
Returned(source) == decision.source = "none" /\ decision'.source = source

C21_CacheFollowsDecision ==
    [][ /\ (Returned("llm") \/ Returned("firefly-override")) =>
            Rows(cache', trace.merchant) =
                {Entry(trace.merchant, decision'.categoryName, decision'.categoryId)}
        /\ Returned("llm") => pc = "categorize"
        /\ Returned("firefly-override") => pc = "getRecent1"
        /\ ~(Returned("llm") \/ Returned("firefly-override")) => cache' \subseteq cache
        /\ Returned("skip") => cache' = cache ]_vars

\* a model decision overwrote the entry the merchant had (its override had
\* been discarded)
C21_Witness ==
    /\ pc = "updateTransaction"
    /\ decision.source = "llm"
    /\ trace.discarded
    /\ cached # NoEntry
    /\ cached.category_id # decision.categoryId
    /\ Rows(cache, trace.merchant) =
            {Entry(trace.merchant, decision.categoryName, decision.categoryId)}

\* C22 (Spec): a cache, override or model decision carries a category id of
\* the list fetched in that same decision; the category update issued for
\* it carries that id; the list has been fetched once when the decision is
\* returned, and never more than once per claim.
C22_IdInFetchedList ==
    [][ /\ (decision.source = "none" /\ decision'.source \notin {"none", "skip"}) =>
            /\ decision'.categoryId \in Ids(categories)
            /\ decision'.source \in {"cache", "firefly-override", "llm"}
            /\ last'.op = "updateTransactionCategory"
            /\ last'.categoryId \in Ids(categories)
            /\ trace'.nCategories = 1
        /\ last'.op = "updateTransactionCategory" => last'.categoryId \in Ids(categories)
        /\ trace'.nCategories <= 1 ]_vars

\* a cache decision for an entry whose id is the second of the fetched list
C22_Witness ==
    /\ pc = "updateTransaction"
    /\ decision.source = "cache"
    /\ categories = <<cFood, cFuel>>
    /\ decision.categoryId = "2"
    /\ last.categoryId = "2"
    /\ trace.nCategories = 1

\* C23 (Spec): a cache decision is returned in the step in which the first
\* history fetch settles, with the id and name of the merchant's valid
\* cache entry; the cache is unchanged, history has been fetched once, and
\* neither the merchant search nor the classifier is called in that claim;
\* the decision leaves the history step for the merchant search only when
\* an override was discarded.
C23_CacheIsFinal ==
    [][ /\ Returned("cache") =>
            /\ pc = "getRecent1"
            /\ pc' = "updateTransaction"
            /\ cached = get(cache, trace.merchant)
            /\ cached # NoEntry
            /\ cached.category_id \in Ids(categories)
            /\ decision'.categoryId = cached.category_id
            /\ decision'.categoryName = cached.category_name
            /\ cache' = cache
            /\ trace'.nHistory = 1
        /\ decision'.source = "cache" =>
            /\ trace'.nHistory = 1
            /\ trace'.nSearch = 0
            /\ trace'.nClassifier = 0
        /\ (pc = "getRecent1" /\ pc' = "searchMerchant") => trace'.discarded ]_vars

\* a cache decision for Food after one history fetch; its update succeeded
C23_Witness ==
    /\ decision.source = "cache"
    /\ decision.categoryName = Food
    /\ last.op = "complete"
    /\ trace.nHistory = 1
    /\ trace.nSearch = 0
    /\ get(cache, trace.merchant).category_name = Food

\* C24 (Spec): a poll that claimed nothing schedules the next poll after
\* 1000 ms; a poll that claimed a job schedules nothing until the job went
\* through complete or fail, and in that step schedules the next poll with
\* delay 0; setTimeout is called at no other moment, so each poll schedules
\* one next poll.
C24_TickCadence ==
    [][ /\ (last'.op = "dequeue" /\ last'.id = NoJob) =>
            (pc = "poll" /\ pc' = "poll" /\ delay' = 1000)
        /\ (last'.op = "dequeue" /\ last'.id # NoJob) =>
            (pc = "poll" /\ pc' # "poll" /\ delay' = delay)
        /\ last'.op \in {"complete", "fail"} =>
            (pc # "poll" /\ pc' = "poll" /\ delay' = 0)
        /\ (pc # "poll" /\ pc' # "poll") => delay' = delay
        /\ (pc # "poll" /\ pc' = "poll") => last'.op \in {"complete", "fail", "init"}
        /\ delay' \in {-1, 0, 1000} ]_vars

\* the job was failed for good and the next poll, scheduled with delay 0,
\* found nothing and scheduled its successor after the poll interval
C24_Witness ==
    /\ last = Op("dequeue", NoJob, NoError)
    /\ delay = 1000
    /\ \E i \in DOMAIN jobs : jobs[i].status = "failed"

\* C25 (SpecLive): without crashes and with the worker's steps taken fairly,
\* every job that was enqueued eventually is completed or failed, whatever
\* the collaborators answer and whenever further jobs arrive; no job is
\* claimed more than 3 times, and a completed or failed job stays so.
Terminal(i) == i \in DOMAIN jobs /\ jobs[i].status \in {"completed", "failed"}
C25_EveryJobEnds ==
    /\ \A i \in 1..MaxJobs : (i \in DOMAIN jobs) ~> Terminal(i)
    /\ [](\A i \in DOMAIN jobs : jobs[i].attempts <= 3)
    /\ [][\A i \in 1..MaxJobs : Terminal(i) => jobs'[i] = jobs[i]]_vars

\* both jobs ended: the older failed after 3 claims, the newer completed
\* after one
C25_Witness ==
    /\ DOMAIN jobs = 1..2
    /\ jobs[1].status = "failed" /\ jobs[1].attempts = 3
    /\ jobs[2].status = "completed" /\ jobs[2].attempts = 1
    /\ pc = "poll"

\* C26 (SpecPinned): a failed transaction update sends the job through fail
\* and leaves the cache as it was, so the entry a model decision wrote is
\* still there; the failed job, if re-queued, is the next one claimed; and
\* while a job is retried after a failed update that followed a model
\* decision, with the list and the history unchanged and every category of
\* the history in the list, neither the merchant search nor the classifier
\* is called and the decision, if one is returned, is cache or override.
HistoryInList ==
    \A i \in 1..Len(input.recentTxns) :
        \/ input.recentTxns[i].categoryId = NullId
        \/ input.recentTxns[i].categoryId \in Ids(input.categories)
C26_CacheSurvivesFailedUpdate ==
    [][ /\ (pc = "updateTransaction" /\ last'.op = "fail") =>
            /\ cache' = cache
            /\ jobs'[job].error = ErrUpdate
            /\ jobs'[job].status \in {"pending", "failed"}
            /\ jobs'[job].status = "pending" => select_pending(jobs') = job
            /\ decision.source = "llm" =>
                   Rows(cache', trace.merchant) =
                       {Entry(trace.merchant, decision.categoryName, decision.categoryId)}
        /\ (pc' # "poll" /\ output'.source = "llm" /\ jobs'[job'].error = ErrUpdate
                /\ HistoryInList) =>
            /\ trace'.nClassifier = 0
            /\ trace'.nSearch = 0
            /\ decision'.source \in {"none", "cache", "firefly-override"} ]_vars

\* the retry of a job whose model decision could not be written to Firefly
\* decided from the cache, with the category the model had chosen
C26_Witness ==
    /\ pc = "updateTransaction"
    /\ output.source = "llm"
    /\ jobs[job].attempts = 2 /\ jobs[job].error = ErrUpdate
    /\ HistoryInList
    /\ decision = Decide("cache", output.categoryId, output.categoryName)
    /\ trace.nClassifier = 0

\* C27 (SpecPinned): with the category list and the history unchanged, the
\* decision that follows a returned override for the merchant is a cache
\* decision with the override's category id and name, reached without the
\* classifier; it is never an override again.
C27_OverrideStabilises ==
    [][ (output'.source = "firefly-override" /\ decision.source = "none"
            /\ decision'.source # "none") =>
            /\ decision' = Decide("cache", output'.categoryId, output'.categoryName)
            /\ trace'.merchant = "shop"
            /\ trace'.nClassifier = 0
            /\ get(cache', trace'.merchant) =
                   Entry(trace'.merchant, output'.categoryName, output'.categoryId) ]_vars

\* an override to Food, taken from a history whose older transaction is in
\* another category, is followed by a cache decision for Food
C27_Witness ==
    /\ output = Decide("firefly-override", "1", Food)
    /\ decision = Decide("cache", "1", Food)
    /\ input.recentTxns = <<tFood, tOld>>
    /\ pc = "updateTransaction"
====
